---- MODULE Spec2Model ----
(***************************************************************************)
(* DisplayListLogBuffer (frameworks/base/libs/hwui): a circular log of the *)
(* most recent display list operations plus two label-keyed tables of      *)
(* per-operation durations (all-time and per-frame).                       *)
(*                                                                         *)
(* The model is of the build with DEBUG_DISPLAY_LIST enabled, the only     *)
(* build in which the duration tables exist.  Pointers into the slot array *)
(* are slot indices (mBufferFirst = 0); a label is the address of a static *)
(* string, a small positive integer; the two sinks (the FILE and the log   *)
(* channel) are the lines the latest operation emitted to each of them.    *)
(***************************************************************************)
EXTENDS Integers, Sequences, FiniteSets, TLC

(***************************************************************************)
(* Bounds.  The source has NUM_COMMANDS = 50 and a 64-bit accumulator; the *)
(* model keeps their arithmetic and scales both down.                      *)
(***************************************************************************)
NUM_COMMANDS == 2

AccBits == 4

MaxWrites == 6

MaxRecords == 3

BUFFER_SIZE == NUM_COMMANDS + 1

INT64_MAX == 2^(AccBits - 1) - 1

Levels == {0, 1}

Labels == {1, 2, 3}

TwoLabels == {1, 2}

Durations == {0, 1, INT64_MAX - 1}

PropValues == {"", "0", "1"}

LabelText == <<"A", "B", "C">>

VARIABLES
    buf,                \* the OpLog slots mBufferFirst .. mBufferLast
    mStart,             \* oldest live slot
    mEnd,               \* next slot to write
    mOpBuffer,          \* all-time table, a KeyedVector ordered by key
    mOpBufferPerFrame,  \* per-frame table, a KeyedVector ordered by key
    mIsLogCommands,     \* timing mode
    fileOut,            \* lines the latest operation printed to its FILE
    logOut,             \* lines the latest operation sent to the log channel
    lastOp,             \* the latest completed call and its arguments
    written,            \* history: every (level, label) written, in order
    recorded,           \* history: per table and label, the durations
                        \* recorded since the entry was inserted
    sinceFlush,         \* history: the (label, duration) records made since
                        \* the latest preFlush (or since construction)
    ctx,                \* history: the mode and the per-frame table before
                        \* the latest call, and the property value it read
    reader,             \* an outputCommands in progress on another thread
    writer              \* a writeCommand in progress on the producer thread

vars == <<buf, mStart, mEnd, mOpBuffer, mOpBufferPerFrame, mIsLogCommands,
          fileOut, logOut, lastOp, written, recorded, sinceFlush, ctx,
          reader, writer>>

ring == <<buf, mStart, mEnd>>

mBufferFirst == 0

mBufferLast == mBufferFirst + BUFFER_SIZE - 1

Slots == mBufferFirst .. mBufferLast

\* malloc leaves the slots unset; no operation reads a slot before writing it
Unset == [level |-> 0, label |-> 0]

OpLog(level, label) == [level |-> level, label |-> label]

Call(op, level, label, duration) ==
    [op |-> op, level |-> level, label |-> label, duration |-> duration]

Text(label) == IF label \in DOMAIN LabelText THEN LabelText[label] ELSE "?"

\* fprintf(file, "%*s%s\n", 2 * level, "", label)
CommandLine(op) == [kind |-> "cmd", indent |-> 2 * op.level, text |-> Text(op.label)]

----------------------------------------------------------------------------
(* Command ring *)

\* mEnd after the store: wrap at mBufferLast
AdvanceEndNoWrap(end) == end + 1

AdvanceEnd(end) == IF end = mBufferLast THEN mBufferFirst ELSE end + 1

\* mStart after the store: drop the oldest entry when mEnd caught up with it
AdvanceStartNoEvict(start, end) == start

AdvanceStartEager(start, end) ==
    IF end = start \/ AdvanceEnd(end) = start
    THEN IF start + 1 > mBufferLast THEN mBufferFirst ELSE start + 1
    ELSE start

AdvanceStart(start, end) ==
    IF end = start
    THEN IF start + 1 > mBufferLast THEN mBufferFirst ELSE start + 1
    ELSE start

\* the slots after the store at mEnd
StoreAtStart(b, start, end, level, label) ==
    [b EXCEPT ![start] = OpLog(level, label)]

Store(b, start, end, level, label) == [b EXCEPT ![end] = OpLog(level, label)]

RECURSIVE DumpRingToLast(_, _, _)
DumpRingToLast(b, tmpBufferPtr, end) ==
    IF tmpBufferPtr = end \/ tmpBufferPtr > mBufferLast
    THEN <<>>
    ELSE <<CommandLine(b[tmpBufferPtr])>>
         \o DumpRingToLast(b, tmpBufferPtr + 1, end)

\* the loop of outputCommands: one line per slot from tmpBufferPtr up to mEnd
RECURSIVE DumpRing(_, _, _)
DumpRing(b, tmpBufferPtr, end) ==
    IF tmpBufferPtr = end
    THEN <<>>
    ELSE <<CommandLine(b[tmpBufferPtr])>>
         \o DumpRing(b, IF tmpBufferPtr + 1 > mBufferLast
                        THEN mBufferFirst ELSE tmpBufferPtr + 1, end)

----------------------------------------------------------------------------
(* Duration tables *)

\* the accumulator is a signed integer of AccBits bits
Wrap(x) == ((x + 2^(AccBits - 1)) % (2^AccBits)) - 2^(AccBits - 1)

\* OpEntry(name, count, duration): every duration field starts at duration
OpEntry(name, count, duration) ==
    [mName |-> name, mCount |-> count, mTotalDuration |-> duration,
     mMaxDuration |-> duration, mLastDuration |-> duration]

\* KeyedVector::indexOfKey, 1-based; 0 when the key is absent
indexOfKey(buffer, label) ==
    IF \E i \in 1..Len(buffer) : buffer[i].mName = label
    THEN CHOOSE i \in 1..Len(buffer) : buffer[i].mName = label
    ELSE 0

\* KeyedVector::add of an absent key: the vector stays ordered by key
add(buffer, label, entry) ==
    LET below == SelectSeq(buffer, LAMBDA e : e.mName < label)
        above == SelectSeq(buffer, LAMBDA e : e.mName > label)
    IN  below \o <<entry>> \o above

\* Vector::insertAt(entry, index), index 0-based
insertAt(list, entry, index) ==
    SubSeq(list, 1, index) \o <<entry>> \o SubSeq(list, index + 1, Len(list))

\* the update of an entry that is already in the table
UpdateItemUnguarded(item, duration) ==
    [item EXCEPT !.mCount = item.mCount + 1,
                 !.mMaxDuration = IF duration > item.mMaxDuration
                                  THEN duration ELSE item.mMaxDuration,
                 !.mTotalDuration = Wrap(item.mTotalDuration + duration),
                 !.mLastDuration = duration]

UpdateItemKeepLast(item, duration) ==
    IF item.mTotalDuration < INT64_MAX - duration
    THEN [item EXCEPT !.mCount = item.mCount + 1,
                      !.mMaxDuration = IF duration > item.mMaxDuration
                                       THEN duration ELSE item.mMaxDuration,
                      !.mTotalDuration = Wrap(item.mTotalDuration + duration),
                      !.mLastDuration = duration]
    ELSE [item EXCEPT !.mCount = 1,
                      !.mMaxDuration = duration,
                      !.mTotalDuration = duration]

UpdateItem(item, duration) ==
    LET upd == IF item.mTotalDuration < INT64_MAX - duration
               THEN [item EXCEPT !.mCount = item.mCount + 1,
                                 !.mMaxDuration =
                                     IF duration > item.mMaxDuration
                                     THEN duration ELSE item.mMaxDuration,
                                 !.mTotalDuration =
                                     Wrap(item.mTotalDuration + duration)]
               ELSE [item EXCEPT !.mCount = 1,
                                 !.mMaxDuration = duration,
                                 !.mTotalDuration = duration]
    IN  [upd EXCEPT !.mLastDuration = duration]

\* the body of the loop over the tables, for one table that needs the update
UpdateTable(buffer, label, duration) ==
    LET index == indexOfKey(buffer, label)
    IN  IF index >= 1
        THEN [buffer EXCEPT ![index] = UpdateItem(buffer[index], duration)]
        ELSE add(buffer, label, OpEntry(label, 1, duration))

RECURSIVE SortIntoReversed(_, _, _)
SortIntoReversed(list, ops, i) ==
    IF i > Len(ops)
    THEN list
    ELSE LET entry == ops[i]
             hits == {j \in 1..Len(list) :
                         entry.mTotalDuration < list[j].mTotalDuration}
             index == IF hits = {} THEN Len(list)
                      ELSE (CHOOSE j \in hits : \A k \in hits : j <= k) - 1
         IN  SortIntoReversed(insertAt(list, entry, index), ops, i + 1)

\* the list outputCommandsInternal builds: each entry goes before the first
\* listed entry with a smaller total, or last
RECURSIVE SortInto(_, _, _)
SortInto(list, ops, i) ==
    IF i > Len(ops)
    THEN list
    ELSE LET entry == ops[i]
             hits == {j \in 1..Len(list) :
                         entry.mTotalDuration > list[j].mTotalDuration}
             index == IF hits = {} THEN Len(list)
                      ELSE (CHOOSE j \in hits : \A k \in hits : j <= k) - 1
         IN  SortInto(insertAt(list, entry, index), ops, i + 1)

SortedList(ops) == SortInto(<<ops[1]>>, ops, 2)

HeaderRow == [kind |-> "header"]

\* one row of the report: name, total, count, average, max, last
Row(entry) == [kind |-> "row", entry |-> entry]

OutputCommandsInternalAlways(file, isLog, opBuffer, perFrame) ==
    LET ops == IF file THEN opBuffer ELSE perFrame
    IN  IF Len(ops) = 0
        THEN <<>>
        ELSE <<HeaderRow>> \o [i \in 1..Len(ops) |-> Row(SortedList(ops)[i])]

OutputCommandsInternalModeOnly(file, isLog, opBuffer, perFrame) ==
    IF isLog
    THEN LET ops == IF file THEN opBuffer ELSE perFrame
         IN  IF Len(ops) = 0
             THEN <<>>
             ELSE <<HeaderRow>>
                  \o [i \in 1..Len(ops) |-> Row(SortedList(ops)[i])]
    ELSE <<>>

\* what outputCommandsInternal emits; file is TRUE for a FILE, FALSE for NULL
OutputCommandsInternal(file, isLog, opBuffer, perFrame) ==
    IF isLog \/ file
    THEN LET ops == IF file THEN opBuffer ELSE perFrame
         IN  IF Len(ops) = 0
             THEN <<>>
             ELSE <<HeaderRow>>
                  \o [i \in 1..Len(ops) |-> Row(SortedList(ops)[i])]
    ELSE <<>>

----------------------------------------------------------------------------
(* History bookkeeping *)

Tables == {"all", "frame"}

NoStat == [n |-> 0, sum |-> 0, max |-> 0]

\* one more duration recorded for label; sum is the exact, unbounded sum
Tally(stats, label, duration) ==
    [stats EXCEPT ![label] =
        [n |-> @.n + 1, sum |-> @.sum + duration,
         max |-> IF @.n = 0 \/ duration > @.max THEN duration ELSE @.max]]

Entry(buffer, label) == buffer[indexOfKey(buffer, label)]

\* what the latest call found, and the property value it read ("" if none)
Before(value) ==
    [wasLog |-> mIsLogCommands, hadFrame |-> mOpBufferPerFrame # <<>>,
     value |-> value]

Keys(buffer) == {buffer[i].mName : i \in 1..Len(buffer)}

ReaderIdle == [pc |-> "idle", tmpBufferPtr |-> 0, out |-> <<>>, raced |-> 0]

WriterIdle == [pc |-> "idle", level |-> 0, label |-> 0]

----------------------------------------------------------------------------
(* Operations *)

Init ==
    /\ buf = [i \in Slots |-> Unset]
    /\ mStart = mBufferFirst
    /\ mEnd = mStart
    /\ mOpBuffer = <<>>
    /\ mOpBufferPerFrame = <<>>
    /\ mIsLogCommands \in BOOLEAN   \* the constructor does not set it
    /\ fileOut = <<>>
    /\ logOut = <<>>
    /\ lastOp = Call("new", 0, 0, 0)
    /\ written = <<>>
    /\ recorded = [t \in Tables |-> [l \in Labels |-> NoStat]]
    /\ sinceFlush = <<>>
    /\ ctx = [wasLog |-> mIsLogCommands, hadFrame |-> FALSE, value |-> ""]
    /\ reader = ReaderIdle
    /\ writer = WriterIdle

\* writeCommand(level, label) on the ring
WriteRing(level, label) ==
    /\ buf' = Store(buf, mStart, mEnd, level, label)
    /\ mEnd' = AdvanceEnd(mEnd)
    /\ mStart' = AdvanceStart(mStart, AdvanceEnd(mEnd))
    /\ written' = Append(written, OpLog(level, label))

WriteCommand(level, label) ==
    /\ Len(written) < MaxWrites
    /\ WriteRing(level, label)
    /\ UNCHANGED <<mOpBuffer, mOpBufferPerFrame, mIsLogCommands, recorded>>
    /\ fileOut' = <<>>
    /\ logOut' = <<>>
    /\ lastOp' = Call("writeCommand", level, label, 0)
    /\ ctx' = Before("")
    /\ UNCHANGED <<reader, writer>>
    /\ UNCHANGED sinceFlush

WriteCommandDurationBothTables(level, label, duration) ==
    /\ Len(written) < MaxWrites
    /\ mOpBuffer' = UpdateTable(mOpBuffer, label, duration)
    /\ mOpBufferPerFrame' = UpdateTable(mOpBufferPerFrame, label, duration)
    /\ recorded' =
          [recorded EXCEPT
              !["all"] = Tally(@, label, duration),
              !["frame"] = IF mIsLogCommands
                           THEN Tally(@, label, duration) ELSE @]
    /\ WriteRing(level, label)
    /\ UNCHANGED mIsLogCommands
    /\ fileOut' = <<>>
    /\ logOut' = <<>>
    /\ lastOp' = Call("writeCommandDuration", level, label, duration)
    /\ ctx' = Before("")
    /\ UNCHANGED <<reader, writer>>
    /\ sinceFlush' = Append(sinceFlush, <<label, duration>>)

WriteCommandDurationRingIfTiming(level, label, duration) ==
    /\ Len(written) < MaxWrites
    /\ mOpBuffer' = UpdateTable(mOpBuffer, label, duration)
    /\ mOpBufferPerFrame' =
          IF mIsLogCommands
          THEN UpdateTable(mOpBufferPerFrame, label, duration)
          ELSE mOpBufferPerFrame
    /\ recorded' =
          [recorded EXCEPT
              !["all"] = Tally(@, label, duration),
              !["frame"] = IF mIsLogCommands
                           THEN Tally(@, label, duration) ELSE @]
    /\ IF mIsLogCommands
       THEN WriteRing(level, label)
       ELSE /\ written' = Append(written, OpLog(level, label))
            /\ UNCHANGED <<buf, mStart, mEnd>>
    /\ UNCHANGED mIsLogCommands
    /\ fileOut' = <<>>
    /\ logOut' = <<>>
    /\ lastOp' = Call("writeCommandDuration", level, label, duration)
    /\ ctx' = Before("")
    /\ UNCHANGED <<reader, writer>>
    /\ sinceFlush' = Append(sinceFlush, <<label, duration>>)

\* writeCommand(level, label, duration)
WriteCommandDuration(level, label, duration) ==
    /\ Len(written) < MaxWrites
    /\ mOpBuffer' = UpdateTable(mOpBuffer, label, duration)
    /\ mOpBufferPerFrame' =
          IF mIsLogCommands
          THEN UpdateTable(mOpBufferPerFrame, label, duration)
          ELSE mOpBufferPerFrame
    /\ recorded' =
          [recorded EXCEPT
              !["all"] = Tally(@, label, duration),
              !["frame"] = IF mIsLogCommands
                           THEN Tally(@, label, duration) ELSE @]
    /\ WriteRing(level, label)
    /\ UNCHANGED mIsLogCommands
    /\ fileOut' = <<>>
    /\ logOut' = <<>>
    /\ lastOp' = Call("writeCommandDuration", level, label, duration)
    /\ ctx' = Before("")
    /\ UNCHANGED <<reader, writer>>
    /\ sinceFlush' = Append(sinceFlush, <<label, duration>>)

\* outputCommands(file), file not NULL
OutputCommandsConsuming ==
    /\ fileOut' = DumpRing(buf, mStart, mEnd)
                  \o OutputCommandsInternal(TRUE, mIsLogCommands,
                                            mOpBuffer, mOpBufferPerFrame)
    /\ logOut' = <<>>
    /\ lastOp' = Call("outputCommands", 0, 0, 0)
    /\ ctx' = Before("")
    /\ UNCHANGED <<reader, writer>>
    /\ UNCHANGED sinceFlush
    /\ mStart' = mEnd
    /\ UNCHANGED <<buf, mEnd, mOpBuffer, mOpBufferPerFrame,
                   mIsLogCommands, written, recorded>>

OutputCommands ==
    /\ fileOut' = DumpRing(buf, mStart, mEnd)
                  \o OutputCommandsInternal(TRUE, mIsLogCommands,
                                            mOpBuffer, mOpBufferPerFrame)
    /\ logOut' = <<>>
    /\ lastOp' = Call("outputCommands", 0, 0, 0)
    /\ ctx' = Before("")
    /\ UNCHANGED <<reader, writer>>
    /\ UNCHANGED sinceFlush
    /\ UNCHANGED <<buf, mStart, mEnd, mOpBuffer, mOpBufferPerFrame,
                   mIsLogCommands, written, recorded>>

\* preFlush(); value is what property_get returns for debug.hwui.log.duration
PreFlushWhenNewlyEnabled(value) ==
    /\ mIsLogCommands' = (value = "1")
    /\ IF mIsLogCommands' /\ ~mIsLogCommands
       THEN /\ mOpBufferPerFrame' = <<>>
            /\ recorded' = [recorded EXCEPT
                               !["frame"] = [l \in Labels |-> NoStat]]
       ELSE UNCHANGED <<mOpBufferPerFrame, recorded>>
    /\ fileOut' = <<>>
    /\ logOut' = <<>>
    /\ lastOp' = Call("preFlush", 0, 0, 0)
    /\ ctx' = Before(value)
    /\ UNCHANGED <<reader, writer>>
    /\ sinceFlush' = <<>>
    /\ UNCHANGED <<buf, mStart, mEnd, mOpBuffer, written>>

PreFlushSticky(value) ==
    /\ mIsLogCommands' = (mIsLogCommands \/ value = "1")
    /\ IF mIsLogCommands'
       THEN /\ mOpBufferPerFrame' = <<>>
            /\ recorded' = [recorded EXCEPT
                               !["frame"] = [l \in Labels |-> NoStat]]
       ELSE UNCHANGED <<mOpBufferPerFrame, recorded>>
    /\ fileOut' = <<>>
    /\ logOut' = <<>>
    /\ lastOp' = Call("preFlush", 0, 0, 0)
    /\ ctx' = Before(value)
    /\ UNCHANGED <<reader, writer>>
    /\ sinceFlush' = <<>>
    /\ UNCHANGED <<buf, mStart, mEnd, mOpBuffer, written>>

PreFlushAlwaysClearing(value) ==
    /\ mIsLogCommands' = (value = "1")
    /\ mOpBufferPerFrame' = <<>>
    /\ recorded' = [recorded EXCEPT !["frame"] = [l \in Labels |-> NoStat]]
    /\ fileOut' = <<>>
    /\ logOut' = <<>>
    /\ lastOp' = Call("preFlush", 0, 0, 0)
    /\ ctx' = Before(value)
    /\ UNCHANGED <<reader, writer>>
    /\ sinceFlush' = <<>>
    /\ UNCHANGED <<buf, mStart, mEnd, mOpBuffer, written>>

PreFlushClearingAll(value) ==
    /\ mIsLogCommands' = (value = "1")
    /\ IF mIsLogCommands'
       THEN /\ mOpBufferPerFrame' = <<>>
            /\ mOpBuffer' = <<>>
            /\ recorded' = [t \in Tables |-> [l \in Labels |-> NoStat]]
       ELSE UNCHANGED <<mOpBuffer, mOpBufferPerFrame, recorded>>
    /\ fileOut' = <<>>
    /\ logOut' = <<>>
    /\ lastOp' = Call("preFlush", 0, 0, 0)
    /\ ctx' = Before(value)
    /\ UNCHANGED <<reader, writer>>
    /\ sinceFlush' = <<>>
    /\ UNCHANGED <<buf, mStart, mEnd, written>>

PreFlush(value) ==
    /\ mIsLogCommands' = (value = "1")
    /\ IF mIsLogCommands'
       THEN /\ mOpBufferPerFrame' = <<>>
            /\ recorded' = [recorded EXCEPT
                               !["frame"] = [l \in Labels |-> NoStat]]
       ELSE UNCHANGED <<mOpBufferPerFrame, recorded>>
    /\ fileOut' = <<>>
    /\ logOut' = <<>>
    /\ lastOp' = Call("preFlush", 0, 0, 0)
    /\ ctx' = Before(value)
    /\ UNCHANGED <<reader, writer>>
    /\ sinceFlush' = <<>>
    /\ UNCHANGED <<buf, mStart, mEnd, mOpBuffer, written>>

\* postFlush(): outputCommandsInternal() with its default, a NULL file
PostFlush ==
    /\ logOut' = OutputCommandsInternal(FALSE, mIsLogCommands,
                                        mOpBuffer, mOpBufferPerFrame)
    /\ fileOut' = <<>>
    /\ lastOp' = Call("postFlush", 0, 0, 0)
    /\ ctx' = Before("")
    /\ UNCHANGED <<reader, writer>>
    /\ UNCHANGED sinceFlush
    /\ UNCHANGED <<buf, mStart, mEnd, mOpBuffer, mOpBufferPerFrame,
                   mIsLogCommands, written, recorded>>

----------------------------------------------------------------------------
(* outputCommands on a diagnostic thread while the producer thread writes:  *)
(* no lock is taken, so the statements of the two calls interleave          *)

\* line 107: mEnd->level = level
WriteLevel(level, label) ==
    /\ writer.pc = "idle"
    /\ Len(written) <= MaxRecords
    /\ buf' = [buf EXCEPT ![mEnd].level = level]
    /\ writer' = [pc |-> "label", level |-> level, label |-> label]
    /\ UNCHANGED <<mStart, mEnd, mOpBuffer, mOpBufferPerFrame, mIsLogCommands,
                   fileOut, logOut, lastOp, written, recorded, sinceFlush,
                   ctx, reader>>

\* line 108: mEnd->label = label
WriteLabel ==
    /\ writer.pc = "label"
    /\ buf' = [buf EXCEPT ![mEnd].label = writer.label]
    /\ writer' = [writer EXCEPT !.pc = "end"]
    /\ UNCHANGED <<mStart, mEnd, mOpBuffer, mOpBufferPerFrame, mIsLogCommands,
                   fileOut, logOut, lastOp, written, recorded, sinceFlush,
                   ctx, reader>>

\* lines 110-114: mEnd moves on; a dump in progress has one more slot to go
WriteEnd ==
    /\ writer.pc = "end"
    /\ mEnd' = AdvanceEnd(mEnd)
    /\ writer' = [writer EXCEPT !.pc = "start"]
    /\ reader' = IF reader.pc = "loop"
                 THEN [reader EXCEPT !.raced = @ + 1] ELSE reader
    /\ UNCHANGED <<buf, mStart, mOpBuffer, mOpBufferPerFrame, mIsLogCommands,
                   fileOut, logOut, lastOp, written, recorded, sinceFlush,
                   ctx>>

\* lines 115-120: mStart moves on if mEnd caught up with it; the write is done
WriteStart ==
    /\ writer.pc = "start"
    /\ mStart' = AdvanceStart(mStart, mEnd)
    /\ writer' = WriterIdle
    /\ written' = Append(written, OpLog(writer.level, writer.label))
    /\ lastOp' = Call("writeCommand", writer.level, writer.label, 0)
    /\ ctx' = Before("")
    /\ fileOut' = <<>>
    /\ logOut' = <<>>
    /\ UNCHANGED <<buf, mEnd, mOpBuffer, mOpBufferPerFrame, mIsLogCommands,
                   recorded, sinceFlush, reader>>

\* lines 93-96: tmpBufferPtr moves one slot on, wrapping at mBufferLast
NextPtrStuck(tmpBufferPtr) == tmpBufferPtr

NextPtr(tmpBufferPtr) ==
    IF tmpBufferPtr + 1 > mBufferLast THEN mBufferFirst ELSE tmpBufferPtr + 1

\* line 85: tmpBufferPtr = mStart
DumpBegin ==
    /\ reader.pc = "idle"
    /\ reader' = [pc |-> "loop", tmpBufferPtr |-> mStart, out |-> <<>>,
                  raced |-> 0]
    /\ UNCHANGED <<buf, mStart, mEnd, mOpBuffer, mOpBufferPerFrame,
                   mIsLogCommands, fileOut, logOut, lastOp, written, recorded,
                   sinceFlush, ctx, writer>>

\* lines 87-96, tmpBufferPtr # mEnd: print the slot and move on
DumpLine ==
    /\ reader.pc = "loop"
    /\ reader.tmpBufferPtr # mEnd
    /\ reader' = [reader EXCEPT
                     !.out = Append(@, CommandLine(buf[reader.tmpBufferPtr])),
                     !.tmpBufferPtr = NextPtr(@)]
    /\ UNCHANGED <<buf, mStart, mEnd, mOpBuffer, mOpBufferPerFrame,
                   mIsLogCommands, fileOut, logOut, lastOp, written, recorded,
                   sinceFlush, ctx, writer>>

\* lines 87-89 and 99, tmpBufferPtr = mEnd: leave the loop, print the report
DumpEnd ==
    /\ reader.pc = "loop"
    /\ reader.tmpBufferPtr = mEnd
    /\ reader' = [reader EXCEPT !.pc = "idle"]
    /\ fileOut' = reader.out
                  \o OutputCommandsInternal(TRUE, mIsLogCommands,
                                            mOpBuffer, mOpBufferPerFrame)
    /\ logOut' = <<>>
    /\ lastOp' = Call("outputCommands", 0, 0, 0)
    /\ ctx' = Before("")
    /\ UNCHANGED <<buf, mStart, mEnd, mOpBuffer, mOpBufferPerFrame,
                   mIsLogCommands, written, recorded, sinceFlush, writer>>

NextConcurrent ==
    \/ \E level \in Levels, label \in TwoLabels : WriteLevel(level, label)
    \/ WriteLabel
    \/ WriteEnd
    \/ WriteStart
    \/ DumpBegin
    \/ DumpLine
    \/ DumpEnd

SpecConcurrent == Init /\ [][NextConcurrent]_vars

----------------------------------------------------------------------------
\* the whole program; the level only reaches the ring, so one level is drawn
Next ==
    \/ \E label \in TwoLabels, duration \in Durations :
          Len(written) < MaxRecords /\ WriteCommandDuration(0, label, duration)
    \/ \E label \in TwoLabels :
          Len(written) < MaxRecords /\ WriteCommand(0, label)
    \/ OutputCommands
    \/ \E value \in PropValues : PreFlush(value)
    \/ PostFlush

Spec == Init /\ [][Next]_vars

\* the ring on its own: writes without a duration, every level
NextRing ==
    \/ \E level \in Levels, label \in TwoLabels : WriteCommand(level, label)
    \/ OutputCommands
    \/ \E value \in PropValues : PreFlush(value)
    \/ PostFlush

SpecRing == Init /\ [][NextRing]_vars

\* the report: three labels, every write carries a duration; one record per
\* label brings the totals of a full table into every order
NextReport ==
    \/ \E label \in Labels, duration \in Durations :
          /\ Len(written) < Cardinality(Labels)
          /\ WriteCommandDuration(0, label, duration)
    \/ OutputCommands
    \/ \E value \in PropValues : PreFlush(value)
    \/ PostFlush

SpecReport == Init /\ [][NextReport]_vars

----------------------------------------------------------------------------
(* Properties *)

RingLines(ops) == [i \in 1..Len(ops) |-> CommandLine(ops[i])]

LastWritten(n) == SubSeq(written, Len(written) - n + 1, Len(written))

Rows(out) == SelectSeq(out, LAMBDA line : line.kind = "row")

Max(a, b) == IF a > b THEN a ELSE b

\* C1: after N <= NUM_COMMANDS writes on a fresh ring, outputCommands prints
\* exactly the N written entries, one line each, in the order written.
C1_DumpAllWritten ==
    (lastOp.op = "outputCommands" /\ Len(written) <= NUM_COMMANDS)
        => fileOut = RingLines(written)

C1_Witness ==
    /\ lastOp.op = "outputCommands"
    /\ Len(written) = NUM_COMMANDS
    /\ written[1] # written[2]
    /\ Len(fileOut) = NUM_COMMANDS

\* C2: after N > NUM_COMMANDS writes on a fresh ring, outputCommands prints
\* exactly the NUM_COMMANDS most recent entries, in the order written, and
\* none of the older ones.
C2_DumpMostRecent ==
    (lastOp.op = "outputCommands" /\ Len(written) > NUM_COMMANDS)
        => fileOut = RingLines(LastWritten(NUM_COMMANDS))

C2_Witness ==
    /\ lastOp.op = "outputCommands"
    /\ Len(written) > BUFFER_SIZE
    /\ mEnd < mStart
    /\ written[1] # written[Len(written)]
    /\ Len(fileOut) = NUM_COMMANDS

\* C3: mStart and mEnd are always slots of the array, and the number of live
\* entries, (mEnd - mStart) mod BUFFER_SIZE, is at most BUFFER_SIZE - 1.
C3_CursorsInRange ==
    /\ mStart \in Slots
    /\ mEnd \in Slots
    /\ (mEnd - mStart) % BUFFER_SIZE <= BUFFER_SIZE - 1

C3_Witness ==
    /\ lastOp.op = "writeCommand"
    /\ mEnd = mBufferFirst
    /\ mStart = mBufferFirst + 1
    /\ Len(written) > BUFFER_SIZE

\* C4: the cursors are equal exactly when nothing has ever been written; in
\* particular they differ after every completed write, also on a full ring.
C4_EqualOnlyWhenEmpty ==
    /\ (mStart = mEnd) <=> (written = <<>>)
    /\ lastOp.op = "writeCommand" => mStart # mEnd

C4_Witness ==
    /\ lastOp.op = "writeCommand"
    /\ Len(written) > NUM_COMMANDS
    /\ (mEnd - mStart) % BUFFER_SIZE = NUM_COMMANDS

\* C5: outputCommands changes neither the slots, nor the cursors, nor either
\* table, nor the timing mode.
C5_OutputChangesNothing ==
    [][lastOp'.op = "outputCommands"
          => UNCHANGED <<buf, mStart, mEnd, mOpBuffer, mOpBufferPerFrame,
                         mIsLogCommands>>]_vars

C5_Witness ==
    /\ lastOp.op = "outputCommands"
    /\ mStart # mEnd
    /\ Len(mOpBuffer) > 0
    /\ Len(mOpBufferPerFrame) > 0
    /\ Len(fileOut) > Len(mOpBuffer)

\* the update the claim C6 describes for an entry already in the table
SumGuardedUpdate(item, duration, after) ==
    IF item.mTotalDuration + duration <= INT64_MAX
    THEN /\ after.mCount = item.mCount + 1
         /\ after.mMaxDuration = Max(item.mMaxDuration, duration)
         /\ after.mTotalDuration = item.mTotalDuration + duration
    ELSE /\ after.mCount = 1
         /\ after.mMaxDuration = duration
         /\ after.mTotalDuration = duration

\* C6: a record for a label the table already holds adds to the entry when
\* total + duration <= INT64_MAX, and resets it to the duration only when the
\* sum exceeds INT64_MAX.
C6_ResetOnlyOnOverflow ==
    [][lastOp'.op = "writeCommandDuration" =>
          /\ lastOp'.label \in Keys(mOpBuffer) =>
                SumGuardedUpdate(Entry(mOpBuffer, lastOp'.label),
                                 lastOp'.duration,
                                 Entry(mOpBuffer', lastOp'.label))
          /\ (mIsLogCommands /\ lastOp'.label \in Keys(mOpBufferPerFrame)) =>
                SumGuardedUpdate(Entry(mOpBufferPerFrame, lastOp'.label),
                                 lastOp'.duration,
                                 Entry(mOpBufferPerFrame', lastOp'.label))]_vars

Table(t) == IF t = "all" THEN mOpBuffer ELSE mOpBufferPerFrame

\* C7: as long as the durations recorded for a label since its entry was
\* inserted sum to at most INT64_MAX, the entry's count, total and max are
\* their number, sum and maximum (one record: count 1 and every field the
\* duration), and after a record its last is that record's duration.
C7_EntryAggregatesRecords ==
    \A t \in Tables : \A label \in Keys(Table(t)) :
        recorded[t][label].sum <= INT64_MAX =>
            /\ Entry(Table(t), label).mCount = recorded[t][label].n
            /\ Entry(Table(t), label).mTotalDuration = recorded[t][label].sum
            /\ Entry(Table(t), label).mMaxDuration = recorded[t][label].max
            /\ (/\ lastOp.op = "writeCommandDuration"
                /\ lastOp.label = label
                /\ (t = "all" \/ mIsLogCommands))
                  => Entry(Table(t), label).mLastDuration = lastOp.duration

\* C8: after every record, the label's entry in the all-time table, and in
\* the per-frame table when timing mode is on, has the duration as its last.
C8_LastIsDuration ==
    lastOp.op = "writeCommandDuration" =>
        /\ lastOp.label \in Keys(mOpBuffer)
        /\ Entry(mOpBuffer, lastOp.label).mLastDuration = lastOp.duration
        /\ mIsLogCommands =>
              /\ lastOp.label \in Keys(mOpBufferPerFrame)
              /\ Entry(mOpBufferPerFrame, lastOp.label).mLastDuration
                    = lastOp.duration

\* the overflow guard reset the entry: it counts fewer records than were made
C8_Witness ==
    /\ lastOp.op = "writeCommandDuration"
    /\ mIsLogCommands
    /\ recorded["all"][lastOp.label].n > 2
    /\ Entry(mOpBuffer, lastOp.label).mCount = 1
    /\ Entry(mOpBufferPerFrame, lastOp.label).mCount = 1
    /\ recorded["frame"][lastOp.label].n > 1
    /\ Entry(mOpBuffer, lastOp.label).mMaxDuration = lastOp.duration
    /\ lastOp.duration > 0

\* the rows list every entry of the table once, by non-increasing total
ReportOf(rows, ops) ==
    /\ Len(rows) = Len(ops)
    /\ {rows[i].entry : i \in 1..Len(rows)} = {ops[i] : i \in 1..Len(ops)}
    /\ \A i \in 1..Len(rows) : \A j \in 1..Len(rows) :
          i < j => rows[i].entry.mTotalDuration >= rows[j].entry.mTotalDuration

\* C9: the report of a non-empty table has exactly one row per entry and the
\* rows are in non-increasing order of total.
C9_ReportSortedPermutation ==
    /\ (lastOp.op = "outputCommands" /\ Len(mOpBuffer) > 0)
          => ReportOf(Rows(fileOut), mOpBuffer)
    /\ (lastOp.op = "postFlush" /\ mIsLogCommands /\ Len(mOpBufferPerFrame) > 0)
          => ReportOf(Rows(logOut), mOpBufferPerFrame)

\* totals stored as [big, small, middle] are reported as [big, middle, small]
C9_Witness ==
    /\ lastOp.op = "outputCommands"
    /\ Len(mOpBuffer) = 3
    /\ mOpBuffer[1].mTotalDuration > mOpBuffer[3].mTotalDuration
    /\ mOpBuffer[3].mTotalDuration > mOpBuffer[2].mTotalDuration
    /\ Rows(fileOut) = <<[kind |-> "row", entry |-> mOpBuffer[1]],
                         [kind |-> "row", entry |-> mOpBuffer[3]],
                         [kind |-> "row", entry |-> mOpBuffer[2]]>>

\* C10: no step removes a label from the all-time table, and preFlush leaves
\* every all-time entry as it was.
C10_AllTimeNeverCleared ==
    [][/\ Keys(mOpBuffer) \subseteq Keys(mOpBuffer')
       /\ lastOp'.op = "preFlush" => mOpBuffer' = mOpBuffer]_vars

\* a preFlush that enabled timing mode and cleared the per-frame table
C10_Witness ==
    /\ lastOp.op = "preFlush"
    /\ mIsLogCommands
    /\ mOpBufferPerFrame = <<>>
    /\ Len(mOpBuffer) = 2
    /\ \E label \in Keys(mOpBuffer) : Entry(mOpBuffer, label).mCount > 1

\* the table after a record of duration for label: the label's entry is
\* there, counts the call (or was reset to it) and has it as its last; every
\* other entry is as it was
Updated(before, after, label, duration) ==
    /\ Keys(after) = Keys(before) \cup {label}
    /\ \A other \in Keys(before) \ {label} :
          Entry(after, other) = Entry(before, other)
    /\ Entry(after, label).mLastDuration = duration
    /\ IF label \in Keys(before)
       THEN \/ Entry(after, label).mCount = Entry(before, label).mCount + 1
            \/ /\ Entry(after, label).mCount = 1
               /\ Entry(after, label).mTotalDuration = duration
       ELSE /\ Entry(after, label).mCount = 1
            /\ Entry(after, label).mTotalDuration = duration

\* C11: every record updates the all-time table; it updates the per-frame
\* table when timing mode is on at the call and leaves it unchanged when
\* timing mode is off.
C11_PerFrameOnlyWhenTiming ==
    [][lastOp'.op = "writeCommandDuration" =>
          /\ Updated(mOpBuffer, mOpBuffer', lastOp'.label, lastOp'.duration)
          /\ IF mIsLogCommands
             THEN Updated(mOpBufferPerFrame, mOpBufferPerFrame',
                          lastOp'.label, lastOp'.duration)
             ELSE mOpBufferPerFrame' = mOpBufferPerFrame]_vars

\* a record with timing mode off: the per-frame entry of the label is stale
C11_Witness ==
    /\ lastOp.op = "writeCommandDuration"
    /\ ~mIsLogCommands
    /\ lastOp.label \in Keys(mOpBufferPerFrame)
    /\ Entry(mOpBufferPerFrame, lastOp.label).mLastDuration # lastOp.duration
    /\ Entry(mOpBuffer, lastOp.label).mLastDuration = lastOp.duration
    /\ Entry(mOpBuffer, lastOp.label).mCount = 2
    /\ Entry(mOpBufferPerFrame, lastOp.label).mCount = 1

\* the table a sequence of records builds from an empty table
RECURSIVE Aggregate(_)
Aggregate(records) ==
    IF records = <<>>
    THEN <<>>
    ELSE UpdateTable(Aggregate(SubSeq(records, 1, Len(records) - 1)),
                     records[Len(records)][1], records[Len(records)][2])

\* C12: after a preFlush that leaves timing mode on the per-frame table is
\* empty, and what a postFlush reports with timing mode on is the aggregate
\* of exactly the records made since the latest preFlush.
C12_PerFrameSinceFlush ==
    /\ (lastOp.op = "preFlush" /\ mIsLogCommands) => mOpBufferPerFrame = <<>>
    /\ (lastOp.op = "postFlush" /\ mIsLogCommands) =>
          /\ mOpBufferPerFrame = Aggregate(sinceFlush)
          /\ sinceFlush # <<>> =>
                ReportOf(Rows(logOut), Aggregate(sinceFlush))

\* a postFlush whose report leaves out a record of an earlier frame
C12_Witness ==
    /\ lastOp.op = "postFlush"
    /\ mIsLogCommands
    /\ Len(sinceFlush) = 1
    /\ Len(Rows(logOut)) = 1
    /\ Entry(mOpBuffer, sinceFlush[1][1]).mCount = 3
    /\ Entry(mOpBufferPerFrame, sinceFlush[1][1]).mCount = 1

\* C13 as stated: preFlush clears the per-frame table exactly when the call
\* turns timing mode on from off, and otherwise leaves the table as it was.
C13_ClearsOnlyWhenNewlyEnabled ==
    [][lastOp'.op = "preFlush" =>
          IF ~mIsLogCommands /\ mIsLogCommands'
          THEN mOpBufferPerFrame' = <<>>
          ELSE mOpBufferPerFrame' = mOpBufferPerFrame]_vars

\* C13 (amended): preFlush clears the per-frame table exactly when timing mode
\* is on after the call, whether or not it was on before; a preFlush that
\* leaves timing mode off leaves the table as it was.
C13_ClearsWheneverEnabled ==
    [][lastOp'.op = "preFlush" =>
          IF mIsLogCommands'
          THEN mOpBufferPerFrame' = <<>>
          ELSE mOpBufferPerFrame' = mOpBufferPerFrame]_vars

\* a preFlush that found timing mode on and a non-empty table, and cleared it
C13_Witness ==
    /\ lastOp.op = "preFlush"
    /\ ctx.wasLog
    /\ ctx.hadFrame
    /\ mIsLogCommands
    /\ mOpBufferPerFrame = <<>>

\* out is a report of the table: the header, then the table's rows
IsReport(out, ops) ==
    /\ out # <<>>
    /\ out[1] = HeaderRow
    /\ Rows(out) = Tail(out)
    /\ ReportOf(Rows(out), ops)

\* C14: postFlush sends a report to the log channel exactly when timing mode
\* is on and the per-frame table is non-empty; the report is of the per-frame
\* table, and nothing goes to a FILE.
C14_PostFlushReportsPerFrame ==
    lastOp.op = "postFlush" =>
        /\ fileOut = <<>>
        /\ IF mIsLogCommands /\ mOpBufferPerFrame # <<>>
           THEN IsReport(logOut, mOpBufferPerFrame)
           ELSE logOut = <<>>

\* a report of a per-frame table that differs from the all-time table
C14_Witness ==
    /\ lastOp.op = "postFlush"
    /\ mIsLogCommands
    /\ Len(logOut) = 2
    /\ Len(mOpBuffer) = 2
    /\ Rows(logOut)[1].entry \notin {mOpBuffer[i] : i \in 1..Len(mOpBuffer)}

\* C15: only preFlush changes the timing mode, and after a preFlush the mode
\* is on exactly when the property value the call read is "1" (the default,
\* the empty value, leaves it off).
C15_ModeSetOnlyByPreFlush ==
    [][IF lastOp'.op = "preFlush"
       THEN mIsLogCommands' = (ctx'.value = "1")
       ELSE mIsLogCommands' = mIsLogCommands]_vars

\* a preFlush that read the default value and turned timing mode off
C15_Witness ==
    /\ lastOp.op = "preFlush"
    /\ ctx.wasLog
    /\ ctx.value = ""
    /\ ~mIsLogCommands
    /\ mOpBufferPerFrame # <<>>

Min(a, b) == IF a < b THEN a ELSE b

\* C16: outputCommands prints the live ring entries, oldest first, and after
\* them the report of the all-time table whenever that table is non-empty,
\* whatever the timing mode; it prints nothing of the per-frame table.
C16_RingThenAllTimeReport ==
    lastOp.op = "outputCommands" =>
        LET k == Min(Len(written), NUM_COMMANDS)
        IN  /\ logOut = <<>>
            /\ Len(fileOut) >= k
            /\ SubSeq(fileOut, 1, k) = RingLines(LastWritten(k))
            /\ IF mOpBuffer = <<>>
               THEN Len(fileOut) = k
               ELSE IsReport(SubSeq(fileOut, k + 1, Len(fileOut)), mOpBuffer)

\* timing mode off, a per-frame table that differs from the all-time table
C16_Witness ==
    /\ lastOp.op = "outputCommands"
    /\ ~mIsLogCommands
    /\ mOpBufferPerFrame # <<>>
    /\ Len(mOpBuffer) = 2
    /\ Len(fileOut) = NUM_COMMANDS + 3
    /\ fileOut[1].kind = "cmd"
    /\ fileOut[NUM_COMMANDS + 1].kind = "header"

Live == (mEnd - mStart) % BUFFER_SIZE

\* the step of the ring for one write of (level, label): mEnd moves one slot
\* on, mStart moves one slot on when NUM_COMMANDS entries were live, the slot
\* mEnd pointed to holds the entry and every other slot is as it was
RingWriteStep(level, label) ==
    /\ mEnd' = (mEnd + 1) % BUFFER_SIZE
    /\ mStart' = IF Live = NUM_COMMANDS
                 THEN (mStart + 1) % BUFFER_SIZE ELSE mStart
    /\ buf'[mEnd] = [level |-> level, label |-> label]
    /\ \A slot \in Slots \ {mEnd} : buf'[slot] = buf[slot]

\* C18: a write moves mEnd by exactly one slot (wrapping), moves mStart by
\* one slot (wrapping) exactly when NUM_COMMANDS entries were live, stores the
\* entry in the slot mEnd pointed to and changes no other slot.
C18_WriteStep ==
    [][lastOp'.op = "writeCommand"
          => RingWriteStep(lastOp'.level, lastOp'.label)]_vars

\* a write on a full ring whose mStart wrapped to the first slot
C18_Witness ==
    /\ lastOp.op = "writeCommand"
    /\ Len(written) > NUM_COMMANDS
    /\ mStart = mBufferFirst
    /\ mEnd = mBufferLast
    /\ buf[mBufferLast - 1] = [level |-> lastOp.level, label |-> lastOp.label]
    /\ lastOp.level = 1

\* C19: the write with a duration does to the ring what the plain write of
\* the same level and label does, in both modes and whichever way the tables
\* were updated.
C19_DurationWriteIsWrite ==
    [][lastOp'.op = "writeCommandDuration"
          => RingWriteStep(lastOp'.level, lastOp'.label)]_vars

\* a write with a duration, timing mode off, that reset the label's entry and
\* evicted the oldest ring entry
C19_Witness ==
    /\ lastOp.op = "writeCommandDuration"
    /\ ~mIsLogCommands
    /\ Len(written) > NUM_COMMANDS
    /\ Live = NUM_COMMANDS
    /\ recorded["all"][lastOp.label].n > 1
    /\ Entry(mOpBuffer, lastOp.label).mCount = 1
    /\ buf[(mEnd + NUM_COMMANDS) % BUFFER_SIZE].label = lastOp.label

\* C20: every entry of either table has count >= 1 and
\* last <= max <= total, with 0 <= total <= INT64_MAX, and every label of the
\* per-frame table is in the all-time table.
C20_EntryInvariant ==
    /\ \A t \in Tables : \A i \in 1..Len(Table(t)) :
          /\ Table(t)[i].mCount >= 1
          /\ Table(t)[i].mLastDuration <= Table(t)[i].mMaxDuration
          /\ Table(t)[i].mMaxDuration <= Table(t)[i].mTotalDuration
          /\ 0 <= Table(t)[i].mTotalDuration
          /\ Table(t)[i].mTotalDuration <= INT64_MAX
    /\ Keys(mOpBufferPerFrame) \subseteq Keys(mOpBuffer)

\* an entry that accumulated three records, and a shorter per-frame entry
C20_Witness ==
    /\ Len(mOpBuffer) = 1
    /\ Len(mOpBufferPerFrame) = 1
    /\ mOpBuffer[1].mCount = 3
    /\ mOpBuffer[1].mLastDuration < mOpBuffer[1].mMaxDuration
    /\ mOpBuffer[1].mMaxDuration < mOpBuffer[1].mTotalDuration
    /\ mOpBufferPerFrame[1].mCount = 1

====
